---- MODULE Spec2Model ----
(***************************************************************************)
(* Model of the NC DAC OPI loader: the DataHandler (reference-table        *)
(* pattern, batched transactional inserts, foreign-key violation capture), *)
(* the ErrorAggregator and the parallel coordinator of main.rs::run.       *)
(*                                                                         *)
(* A data file is modelled by the sequence of key values of its records    *)
(* (0 stands for a NULL key after coercion); the storage engine is the     *)
(* SQLite behaviour the handler relies on: CREATE TABLE IF NOT EXISTS,     *)
(* PRIMARY KEY uniqueness, immediate FOREIGN KEY checks, and transactions  *)
(* that roll back when dropped without commit.                             *)
(***************************************************************************)
EXTENDS Integers, Sequences, FiniteSets, TLC

(***************************************************************************)
(* Bounds of the model.                                                    *)
(***************************************************************************)
\* data_handler.rs:48 sets BATCH_SIZE to 250; the model scales it down so
\* that files of a few records span several batches.
BATCH_SIZE == 2
\* Largest key value of a record; 0 is the NULL key.
MaxKey == 1
\* Number of API calls made on the loader in one behaviour.
MaxCalls == 2
\* Number of threads that share an aggregator, and of errors each adds.
MaxThreads == 2
MaxErrors == 2
\* Longest data file: one record more than a full batch.
MaxRecords == BATCH_SIZE + 1

NULL == 0
None == "None"
Keys == 0..MaxKey

(***************************************************************************)
(* The file catalog (files.rs FILES), four of its twelve entries, with     *)
(* the field codes of their descriptors.                                   *)
(***************************************************************************)
FILES == {"OFNT3AA1", "OFNT3BB1", "INMT4AA1", "APPT9BJ1"}

\* utilities.rs to_snake_case applied to the catalog names
\* "Offender Profile", "Court Commmitment", "Inmate Profile" and
\* "Impact Scheduling Request".
to_snake_case(f) ==
    CASE f = "OFNT3AA1" -> "offender_profile"
      [] f = "OFNT3BB1" -> "court_commmitment"
      [] f = "INMT4AA1" -> "inmate_profile"
      [] OTHER -> "impact_scheduling_request"

Tables == {to_snake_case(f) : f \in FILES}

\* Field codes of each file's descriptor (the keys of FileDescription.schema).
Schema(f) ==
    CASE f = "OFNT3AA1" -> {"CMDORNUM", "CMDOLNAM"}
      [] f = "OFNT3BB1" -> {"CIDORNUM", "CDDORNUM", "CMCOUNTY"}
      [] f = "INMT4AA1" -> {"CMDORNUM", "CMINMSTA"}
      [] OTHER -> {"RQSTDATE", "RQSTTYPE"}

KEY_CANDIDATES_Reversed == <<"CDDORNUM", "CIDORNUM", "CMDORNUM">>

KEY_CANDIDATES == <<"CMDORNUM", "CIDORNUM", "CDDORNUM">>

\* utilities.rs get_primary_key_field: the first candidate, in order, that
\* the schema contains; None when there is none.
RECURSIVE FirstCandidate(_, _)
FirstCandidate(schema, i) ==
    IF i > Len(KEY_CANDIDATES) THEN None
    ELSE IF KEY_CANDIDATES[i] \in schema THEN KEY_CANDIDATES[i]
    ELSE FirstCandidate(schema, i + 1)

get_primary_key_field(schema) == FirstCandidate(schema, 1)

(***************************************************************************)
(* Environment faults: the one place of a call where the file system or    *)
(* the storage engine fails for a reason outside the data.                 *)
(***************************************************************************)
MaxBatches == (MaxRecords + BATCH_SIZE - 1) \div BATCH_SIZE

NoFault == [kind |-> "none", at |-> 0]

\* "desc": the descriptor cannot be read; "ddl": CREATE TABLE fails;
\* "read" at i: opening the data file (i = 1) or reading its i-th record
\* fails; "exec" at i: the insert of record i fails with an engine error;
\* "commit" at b: the commit of the b-th batch fails.
Faults ==
    {NoFault}
    \cup {[kind |-> k, at |-> 0] : k \in {"desc", "ddl"}}
    \cup {[kind |-> k, at |-> i] : k \in {"read", "exec"}, i \in 1..MaxRecords}
    \cup {[kind |-> "commit", at |-> b] : b \in 1..MaxBatches}

\* The faults that can strike create_table_for_file, which reads no data.
TableFaults == {fault \in Faults : fault.kind \in {"none", "desc", "ddl"}}

(***************************************************************************)
(* Storage engine.                                                         *)
(***************************************************************************)
NoTable == [kind |-> "none", key |-> None, ref_table |-> None, ref_field |-> None]

EmptyDb == [def |-> [t \in Tables |-> NoTable], rows |-> [t \in Tables |-> <<>>]]

KeysOf(rows) == {rows[i].key : i \in 1..Len(rows)}

\* Outcome of executing the prepared INSERT for one record inside the open
\* transaction: "ok", "fk" (SQLITE_CONSTRAINT_FOREIGNKEY, extended code 787),
\* "constraint" (another constraint violation: a duplicate primary key) or
\* "error" (any other engine error: parent table missing or without the key).
ExecInsert(d, txRows, t, key) ==
    LET def == d.def[t] IN
    IF def.kind = "pk"
    THEN IF key # NULL /\ key \in (KeysOf(d.rows[t]) \cup KeysOf(txRows))
         THEN "constraint" ELSE "ok"
    ELSE IF key = NULL THEN "ok"
    ELSE IF def.ref_table \notin Tables THEN "error"
    ELSE LET parent == d.def[def.ref_table] IN
         IF parent.kind # "pk" \/ parent.key # def.ref_field THEN "error"
         ELSE IF key \in KeysOf(d.rows[def.ref_table]) THEN "ok"
         ELSE "fk"

(***************************************************************************)
(* DataHandler.                                                            *)
(***************************************************************************)
\* DataHandler::new: the state of a freshly constructed handler on
\* connection c.
NewHandler(c) ==
    [database |-> c,
     reference_file |-> None,
     reference_table_name |-> None,
     reference_field |-> None,
     is_initialized |-> FALSE,
     processed_files |-> {},
     errors |-> <<>>]

ErrorDetails(f, t, line) == [file_id |-> f, table_name |-> t, line |-> line]

IsForeignKeyViolation_Never(outcome) == FALSE

IsForeignKeyViolation_AnyConstraint(outcome) == outcome \in {"fk", "constraint"}

\* commit_batch, the match on stmt.execute: is this outcome the foreign-key
\* violation that is recorded and skipped?
IsForeignKeyViolation(outcome) == outcome = "fk"

\* The state of a transaction in which no statement has run.
EmptyTx ==
    [ok |-> FALSE, txRows |-> <<>>, errors |-> <<>>,
     attempts |-> <<>>, outcomes |-> <<>>]

\* commit_batch, stmt.execute for one record of the batch: the engine's
\* answer, or the environment's fault.
Execute(d, txRows, t, rec, fault) ==
    IF fault.kind = "exec" /\ fault.at = rec.line THEN "error"
    ELSE ExecInsert(d, txRows, t, rec.key)

\* commit_batch, the loop over the batch from record i on.  acc carries the
\* rows inserted in the open transaction, the errors collected, and the
\* trace of the records handed to the engine with the engine's answers.
RECURSIVE ExecBatch(_, _, _, _, _, _, _)

\* commit_batch, the match on the outcome of record i: an accepted row
\* joins the transaction, a foreign-key violation is recorded and the loop
\* goes on, any other error ends the call.
Matched(d, f, t, batch, i, acc, fault, outcome) ==
    LET rec == batch[i]
        seen == [acc EXCEPT !.attempts = Append(@, rec.line),
                            !.outcomes = Append(@, outcome)]
    IN IF outcome = "ok"
       THEN ExecBatch(d, f, t, batch, i + 1,
                [seen EXCEPT !.txRows = Append(@, [file |-> f, line |-> rec.line, key |-> rec.key])],
                fault)
       ELSE IF IsForeignKeyViolation(outcome)
       THEN ExecBatch(d, f, t, batch, i + 1,
                [seen EXCEPT !.errors = Append(@, ErrorDetails(f, t, rec.line))],
                fault)
       ELSE [seen EXCEPT !.ok = FALSE]

ExecBatch(d, f, t, batch, i, acc, fault) ==
    IF i > Len(batch) THEN [acc EXCEPT !.ok = TRUE]
    ELSE Matched(d, f, t, batch, i, acc, fault,
                 Execute(d, acc.txRows, t, batch[i], fault))

\* Transaction::commit: the rows inserted in the transaction become rows of
\* table t.
CommitTx(d, t, txRows) == [d EXCEPT !.rows[t] = @ \o txRows]

\* commit_batch, after the loop that left the transaction as r: an error
\* return drops the transaction, which rolls it back (the database is then
\* the one the batch started from); otherwise the b-th batch is committed.
EndTransaction(d, t, b, fault, r) ==
    IF ~r.ok \/ (fault.kind = "commit" /\ fault.at = b)
    THEN [ok |-> FALSE, db |-> d, errors |-> <<>>,
          attempts |-> r.attempts, outcomes |-> r.outcomes, began |-> TRUE]
    ELSE [ok |-> TRUE, db |-> CommitTx(d, t, r.txRows), errors |-> r.errors,
          attempts |-> r.attempts, outcomes |-> r.outcomes, began |-> TRUE]

\* commit_batch: begin a transaction, prepare the INSERT (which fails when
\* the table does not exist), execute it once per record, commit.
commit_batch(d, f, t, batch, b, fault) ==
    IF d.def[t].kind = "none" THEN EndTransaction(d, t, b, fault, EmptyTx)
    ELSE EndTransaction(d, t, b, fault, ExecBatch(d, f, t, batch, 1, EmptyTx, fault))

BatchFull_Never(batch) == FALSE

\* insert_records_for_file, the test that ends a batch inside the loop.
BatchFull(batch) == Len(batch) >= BATCH_SIZE

\* insert_records_for_file, the loop that fills one batch: records are read
\* from record i on until the batch is full or the file ends.  A record that
\* cannot be read ends the call with the error.
RECURSIVE ReadBatch(_, _, _, _)
ReadBatch(data, i, batch, fault) ==
    IF i > Len(data) THEN [ok |-> TRUE, batch |-> batch, next |-> i]
    ELSE IF fault.kind = "read" /\ fault.at = i
    THEN [ok |-> FALSE, batch |-> batch, next |-> i]
    ELSE LET filled == Append(batch, [line |-> i, key |-> data[i]]) IN
         IF BatchFull(filled) THEN [ok |-> TRUE, batch |-> filled, next |-> i + 1]
         ELSE ReadBatch(data, i + 1, filled, fault)

\* insert_records_for_file, the loop over the parsed records from record i
\* on: every full batch is committed, then the last, partial batch.
RECURSIVE InsertLoop(_, _, _, _, _, _)

\* The callback told of one record whatever the batch.
ProgressInc_One(batch) == 1

\* insert_records_for_file, progress.inc after a batch: the value passed is
\* the length of the batch.
ProgressInc(batch) == Len(batch)

\* insert_records_for_file, after commit_batch returned cb for batch rb:
\* the ? returns its error; otherwise the batch's errors and its length
\* are added, progress is reported, and the loop goes on.
AfterBatch(st, f, t, data, fault, rb, cb) ==
    LET after == [st EXCEPT !.db = cb.db,
                            !.attempts = @ \o cb.attempts,
                            !.outcomes = @ \o cb.outcomes,
                            !.begun = @ + (IF cb.began THEN 1 ELSE 0)]
    IN IF cb.ok
       THEN InsertLoop([after EXCEPT !.local_errors = @ \o cb.errors,
                                     !.processed = @ + Len(rb.batch),
                                     !.progress = Append(@, ProgressInc(rb.batch)),
                                     !.committed = @ + 1],
                       f, t, data, rb.next, fault)
       ELSE [after EXCEPT !.ok = FALSE]

\* insert_records_for_file, after the next batch was read as rb.
AfterRead(st, f, t, data, fault, rb) ==
    IF ~rb.ok THEN [st EXCEPT !.ok = FALSE]
    ELSE IF rb.batch = <<>> THEN [st EXCEPT !.ok = TRUE]
    ELSE AfterBatch(st, f, t, data, fault, rb,
                    commit_batch(st.db, f, t, rb.batch, st.committed + 1, fault))

InsertLoop(st, f, t, data, i, fault) ==
    AfterRead(st, f, t, data, fault, ReadBatch(data, i, <<>>, fault))

\* The result of a handler call: the handler and the database after it,
\* what it returned, and the trace of what it asked of the engine.
Result(h, d, res, st) ==
    [h |-> h, db |-> d, res |-> res,
     processed |-> st.processed, errors |-> st.local_errors,
     attempts |-> st.attempts, outcomes |-> st.outcomes,
     progress |-> st.progress, begun |-> st.begun, committed |-> st.committed]

NoWork(d) ==
    [db |-> d, processed |-> 0, local_errors |-> <<>>,
     attempts |-> <<>>, outcomes |-> <<>>, progress |-> <<>>,
     begun |-> 0, committed |-> 0, ok |-> FALSE]

\* insert_records_for_file, its end once the loop has ended as st: only a
\* loop that ran to the end of the file extends the handler's errors.
Inserted(h, st) ==
    IF st.ok
    THEN Result([h EXCEPT !.errors = @ \o st.local_errors], st.db, "Ok", st)
    ELSE Result(h, st.db, "Err", st)

\* insert_records_for_file.
insert_records_for_file(h, d, f, data, fault) ==
    IF fault.kind = "desc" \/ (fault.kind = "read" /\ fault.at = 1)
    THEN Result(h, d, "Err", NoWork(d))
    ELSE Inserted(h, InsertLoop(NoWork(d), f, to_snake_case(f), data, 1, fault))

TableConstraint_Unchecked(h, table_name, primary_key) ==
    IF table_name = h.reference_table_name
    THEN [ok |-> TRUE,
          def |-> [kind |-> "pk", key |-> primary_key, ref_table |-> None, ref_field |-> None]]
    ELSE [ok |-> TRUE,
          def |-> [kind |-> "fk", key |-> primary_key,
                   ref_table |-> h.reference_table_name,
                   ref_field |-> h.reference_field]]

\* create_table_for_file, the constraint clause: a primary key for the
\* reference table, otherwise a foreign key to the reference binding, which
\* must be set.
TableConstraint(h, table_name, primary_key) ==
    IF table_name = h.reference_table_name
    THEN [ok |-> TRUE,
          def |-> [kind |-> "pk", key |-> primary_key, ref_table |-> None, ref_field |-> None]]
    ELSE IF h.reference_table_name = None \/ h.reference_field = None
    THEN [ok |-> FALSE, def |-> NoTable]
    ELSE [ok |-> TRUE,
          def |-> [kind |-> "fk", key |-> primary_key,
                   ref_table |-> h.reference_table_name,
                   ref_field |-> h.reference_field]]

\* create_table_for_file, the CREATE TABLE IF NOT EXISTS with constraint
\* clause c.
CreateTable(h, d, table_name, primary_key, fault, c) ==
    IF fault.kind = "desc" \/ primary_key = None \/ ~c.ok \/ fault.kind = "ddl"
    THEN Result(h, d, "Err", NoWork(d))
    ELSE Result(h,
                IF d.def[table_name].kind = "none"
                THEN [d EXCEPT !.def[table_name] = c.def] ELSE d,
                "Ok", NoWork(d))

\* create_table_for_file.
create_table_for_file(h, d, f, fault) ==
    CreateTable(h, d, to_snake_case(f), get_primary_key_field(Schema(f)), fault,
                TableConstraint(h, to_snake_case(f), get_primary_key_field(Schema(f))))

AlreadyProcessed_Never(h, f) == FALSE

\* process_file, its second check: was the file already processed by this
\* handler?
AlreadyProcessed(h, f) == f \in h.processed_files

MarkProcessed_AlsoOnError(f, ir) == [ir EXCEPT !.h.processed_files = @ \cup {f}]

\* process_file, after insert_records_for_file returned ir: the ? returns
\* its error, otherwise the file joins processed_files.
MarkProcessed(f, ir) ==
    IF ir.res = "Err" THEN ir ELSE [ir EXCEPT !.h.processed_files = @ \cup {f}]

\* process_file, after create_table_for_file returned ct.
AfterCreateTable(h, f, data, fault, ct) ==
    IF ct.res = "Err" THEN ct
    ELSE MarkProcessed(f, insert_records_for_file(h, ct.db, f, data, fault))

\* process_file.
process_file(h, d, f, data, fault) ==
    IF ~h.is_initialized THEN Result(h, d, "Err", NoWork(d))
    ELSE IF AlreadyProcessed(h, f) THEN Result(h, d, "Skipped", NoWork(d))
    ELSE AfterCreateTable(h, f, data, fault, create_table_for_file(h, d, f, fault))

\* init, after the fields are assigned: process_file on the reference file,
\* whose "skipped" answer becomes the error "Failed to process reference
\* file".
LoadReferenceFile(bound, d, f, data, fault) ==
    [process_file(bound, d, f, data, fault) EXCEPT
        !.res = IF @ = "Skipped" THEN "Err" ELSE @]

\* init that assigns its fields before it looks for the key field.
init_BindsFirst(h, d, f, data, fault) ==
    LoadReferenceFile([h EXCEPT !.reference_file = f,
                                !.reference_table_name = to_snake_case(f),
                                !.reference_field = get_primary_key_field(Schema(f)),
                                !.is_initialized = TRUE],
                      d, f, data, fault)

\* init.
init(h, d, f, data, fault) ==
    IF fault.kind = "desc" \/ get_primary_key_field(Schema(f)) = None
    THEN Result(h, d, "Err", NoWork(d))
    ELSE LoadReferenceFile([h EXCEPT !.reference_file = f,
                                     !.reference_table_name = to_snake_case(f),
                                     !.reference_field = get_primary_key_field(Schema(f)),
                                     !.is_initialized = TRUE],
                           d, f, data, fault)

(***************************************************************************)
(* Connections.  A connection is known by its number in the order of       *)
(* opening; connections[c] is its configuration.                           *)
(***************************************************************************)
\* The configuration DataHandler::new leaves a connection in: foreign keys
\* enforced, the engine's default synchronous mode.
ReferenceConnection == [foreign_keys |-> TRUE, synchronous |-> "FULL"]

set_pragma_synchronous_normal_Skipped(conn) == conn

\* set_pragma_synchronous_normal.
set_pragma_synchronous_normal(conn) == [conn EXCEPT !.synchronous = "NORMAL"]

OpenConnection_Reuse(conns) == Len(conns)

\* Connection::open in DataHandler::new: every call opens a new connection.
OpenConnection(conns) == Len(conns) + 1

\* The connections after connection c has been given configuration conn.
Configured(conns, c, conn) ==
    [i \in 1..(IF c > Len(conns) THEN c ELSE Len(conns)) |->
        IF i = c THEN conn ELSE conns[i]]

\* create_worker_handler: a new handler on a connection of its own, with
\* synchronous = NORMAL.
create_worker_handler(conns) ==
    LET c == OpenConnection(conns) IN
    [handler |-> NewHandler(c),
     connections |-> Configured(conns, c, set_pragma_synchronous_normal(ReferenceConnection))]

\* init_from_reference: the worker's handler takes the reference binding of
\* the reference loader and counts as initialized, without loading a file.
init_from_reference(h, ref_file, ref_table, ref_field) ==
    [h EXCEPT !.reference_file = ref_file,
              !.reference_table_name = ref_table,
              !.reference_field = ref_field,
              !.is_initialized = TRUE]

(***************************************************************************)
(* ErrorAggregator: a vector behind a mutex.  locked tells whether a       *)
(* thread is inside the critical section, poisoned whether a thread        *)
(* panicked inside it.                                                     *)
(***************************************************************************)
\* ErrorAggregator::new.
NewAggregator == [errors |-> <<>>, locked |-> FALSE, poisoned |-> FALSE]

CanLock_Always(a) == TRUE

\* Mutex::lock returns only when no thread holds the mutex.
CanLock(a) == ~a.locked

\* The aggregator once Mutex::lock has returned its guard.
Locked(a) == [a EXCEPT !.locked = TRUE]

\* The first n elements of s (all of s when it is shorter).
Take(s, n) == SubSeq(s, 1, IF n < Len(s) THEN n ELSE Len(s))

\* Vec::push / Vec::extend by a thread that read the vector's length as len
\* when it entered the critical section, followed by the drop of the guard.
Stored(a, len, items) ==
    [errors |-> Take(a.errors, len) \o items, locked |-> FALSE, poisoned |-> a.poisoned]

Poisoned_Recovered(a) == FALSE

\* Mutex::lock returns Err(PoisonError) once a holder of the guard has
\* panicked; the expect in every method of the aggregator then panics.
Poisoned(a) == a.poisoned

\* The aggregator once the thread that holds the guard, and read the
\* vector's length as len, has panicked: the guard is dropped by the
\* unwinding, which poisons the mutex.
Unwound(a, len) ==
    [errors |-> Take(a.errors, len), locked |-> FALSE, poisoned |-> TRUE]

\* ErrorAggregator::get_errors: a copy of the vector.
get_errors(a) == a.errors

\* ErrorAggregator::count.
count(a) == Len(a.errors)

AfterSnapshot_Taken(a) == [a EXCEPT !.errors = <<>>]

\* ErrorAggregator::get_errors and count, what the call leaves behind: the
\* vector is cloned (or measured), not moved out.
AfterSnapshot(a) == a

(***************************************************************************)
(* The descriptor parser and the record decoder.  A text is the sequence   *)
(* of its characters; an Option is the empty sequence (None, or an Err)    *)
(* or the sequence of its one value (Some, or an Ok).                      *)
(***************************************************************************)
\* Width of usize in bits.
UsizeBits == 5
\* Longest line of a data file.
MaxLen == 3

USIZE_MAX == 2 ^ UsizeBits - 1

Some(value) == <<value>>

IsWhitespace(c) == c \in {" ", "\t"}

RECURSIVE trim_start(_)
trim_start(s) ==
    IF s # <<>> /\ IsWhitespace(Head(s)) THEN trim_start(Tail(s)) ELSE s

RECURSIVE trim_end(_)
trim_end(s) ==
    IF s # <<>> /\ IsWhitespace(s[Len(s)]) THEN trim_end(SubSeq(s, 1, Len(s) - 1)) ELSE s

trim(s) == trim_end(trim_start(s))

NULL_DATE_MARKER == <<"0", "0", "0", "1", "-", "0", "1", "-", "0", "1">>

\* The pattern without its anchors: some character is a question mark.
ALL_QUESTION_MARKS_Unanchored(value) == \E i \in 1..Len(value) : value[i] = "?"

\* The pattern ^\?+$: one or more characters, each a question mark.
ALL_QUESTION_MARKS(value) ==
    value # <<>> /\ \A i \in 1..Len(value) : value[i] = "?"

coerce_value(raw_value) ==
    LET value == trim(raw_value) IN
    IF value = <<>> THEN <<>>
    ELSE IF value = NULL_DATE_MARKER THEN <<>>
    ELSE IF ALL_QUESTION_MARKS(value) THEN <<>>
    ELSE Some(value)

\* The slice line[from..to] of Rust: it panics (the empty Option) when the
\* range is not inside the line.
Slice(line, from, to) ==
    IF from <= to /\ to <= Len(line) THEN Some(SubSeq(line, from + 1, to)) ELSE <<>>

saturating_sub(n, m) == IF n < m THEN 0 ELSE n - m

\* The raw value taken without looking at the length of the line.
RawValue_Unchecked(field_def, line) ==
    Slice(line, saturating_sub(field_def.start, 1),
                saturating_sub(field_def.start, 1) + field_def.length)

\* parse_line, the raw value of one field.
RawValue(field_def, line) ==
    LET slice_start == saturating_sub(field_def.start, 1)
        slice_end   == saturating_sub(field_def.start, 1) + field_def.length
    IN  IF Len(line) >= slice_end THEN Slice(line, slice_start, slice_end)
        ELSE IF Len(line) > slice_start THEN Slice(line, slice_start, Len(line))
        ELSE Some(<<>>)

\* parse_line: the record of the line, or the empty Option when a slice
\* panicked.
parse_line(schema, line) ==
    IF \E field_code \in DOMAIN schema : RawValue(schema[field_code], line) = <<>>
    THEN <<>>
    ELSE Some([field_code \in DOMAIN schema |->
                  coerce_value(RawValue(schema[field_code], line)[1])])

\* The words of a line, each with the number of whitespace characters
\* before it.
RECURSIVE Words(_, _, _, _, _)
Words(line, i, gap, word, acc) ==
    IF i > Len(line)
    THEN IF word = <<>> THEN acc ELSE Append(acc, [gap |-> gap, text |-> word])
    ELSE IF IsWhitespace(line[i])
    THEN IF word = <<>> THEN Words(line, i + 1, gap + 1, <<>>, acc)
         ELSE Words(line, i + 1, 1, <<>>, Append(acc, [gap |-> gap, text |-> word]))
    ELSE Words(line, i + 1, gap, Append(word, line[i]), acc)

DIGITS == <<"0", "1", "2", "3", "4", "5", "6", "7", "8", "9">>

IsDigit(c) == \E d \in 1..10 : DIGITS[d] = c

IsUpper(c) == c \in {"A", "B", "C", "D", "E", "I", "M", "T"}

\* The longest run of digits a text starts with: the greedy (\d+).
RECURSIVE LeadingDigits(_)
LeadingDigits(text) ==
    IF text # <<>> /\ IsDigit(Head(text))
    THEN <<Head(text)>> \o LeadingDigits(Tail(text)) ELSE <<>>

\* DES_LINE_REGEX matches with the type in word k: the field code starts
\* the line and is followed by two or more spaces, the description is not
\* empty (it is a run of spaces when the code and the type are five or
\* more spaces apart), the type is a word of uppercase letters after two
\* or more spaces, the start is a word of digits and the length the digits
\* the next word starts with.
MatchesAt(words, k) ==
    /\ k + 2 <= Len(words)
    /\ words[1].gap = 0
    /\ words[2].gap >= 2
    /\ IF k = 2 THEN words[2].gap >= 5 ELSE words[k].gap >= 2
    /\ \A i \in 1..Len(words[k].text) : IsUpper(words[k].text[i])
    /\ \A i \in 1..Len(words[k + 1].text) : IsDigit(words[k + 1].text[i])
    /\ LeadingDigits(words[k + 2].text) # <<>>

\* The captures of DES_LINE_REGEX on a line, the description left out:
\* the non-greedy description makes the first match the one taken.
DES_LINE_REGEX(line) ==
    LET words == Words(line, 1, 0, <<>>, <<>>)
        ks    == {k \in 2..Len(words) : MatchesAt(words, k)}
    IN  IF ks = {} THEN <<>>
        ELSE LET k == CHOOSE k \in ks : \A j \in ks : k <= j
             IN  Some([field_code |-> words[1].text,
                       field_type |-> words[k].text,
                       start      |-> words[k + 1].text,
                       length     |-> LeadingDigits(words[k + 2].text)])

\* str::parse::<usize> on a text of digits: an Err when the number does
\* not fit.
RECURSIVE ParseUsize(_, _)
ParseUsize(digits, acc) ==
    IF digits = <<>> THEN Some(acc)
    ELSE LET d == (CHOOSE n \in 1..10 : DIGITS[n] = Head(digits)) - 1 IN
         IF 10 * acc + d > USIZE_MAX THEN <<>>
         ELSE ParseUsize(Tail(digits), 10 * acc + d)

EmptySchema == [field_code \in {} |-> 0]

FieldDefinition(field_type, start, length) ==
    [field_type |-> field_type, start |-> start, length |-> length]

\* HashMap::insert: a repeated field code replaces the definition.
Insert(schema, field_code, field_def) ==
    [c \in DOMAIN schema \cup {field_code} |->
        IF c = field_code THEN field_def ELSE schema[c]]

\* parse_content from line i on: blank lines and lines the pattern does
\* not match are skipped, a start or length that does not parse is the
\* error.
RECURSIVE parse_content(_, _, _)
parse_content(content, i, schema) ==
    IF i > Len(content) THEN Some(schema)
    ELSE LET line     == trim_end(content[i])
             captures == DES_LINE_REGEX(trim_end(content[i]))
         IN  IF trim(line) = <<>> \/ captures = <<>>
             THEN parse_content(content, i + 1, schema)
             ELSE IF ParseUsize(captures[1].start, 0) = <<>>
                     \/ ParseUsize(captures[1].length, 0) = <<>>
             THEN <<>>
             ELSE parse_content(content, i + 1,
                      Insert(schema, captures[1].field_code,
                             FieldDefinition(captures[1].field_type,
                                             ParseUsize(captures[1].start, 0)[1],
                                             ParseUsize(captures[1].length, 0)[1])))

(***************************************************************************)
(* One loader and its callers.  The calls are the four public operations   *)
(* of DataHandler, on any of three files (the reference file, a dependent  *)
(* file and a file without a key field), with any fault.                   *)
(***************************************************************************)
VARIABLES dat, handler, db, before, last, calls, init_calls,
          connections, aggregator, threads, reader, pc, workers, writer,
          schema, resolved, parser

vars == <<dat, handler, db, before, last, calls, init_calls,
          connections, aggregator, threads, reader, pc, workers, writer,
          schema, resolved, parser>>

keyVars == <<schema, resolved>>

loaderVars == <<dat, handler, db, before, last, calls, init_calls, keyVars, parser>>

aggregatorVars == <<aggregator, threads, reader>>

coordinatorVars == <<connections, pc, workers, writer>>

ReferenceFile == "OFNT3AA1"

LoaderFiles == {"OFNT3AA1", "OFNT3BB1", "APPT9BJ1"}

RECURSIVE SeqsUpTo(_, _)
SeqsUpTo(S, n) ==
    IF n = 0 THEN {<<>>}
    ELSE LET shorter == SeqsUpTo(S, n - 1) IN
         shorter \cup {Append(s, x) : s \in {q \in shorter : Len(q) = n - 1}, x \in S}

NoCall ==
    [op |-> "none", file |-> None, faulty |-> FALSE, res |-> "none",
     processed |-> 0, errors |-> <<>>, attempts |-> <<>>, outcomes |-> <<>>,
     progress |-> <<>>, begun |-> 0, committed |-> 0]

\* A thread that adds nothing, and a worker slot without a task.
NoThread == [pc |-> "none", mode |-> None, mine |-> <<>>, todo |-> <<>>, len |-> 0]

\* A thread that calls get_errors and count: its latest call, the latest
\* snapshot it was returned, the one before, and the count it was returned
\* since.
NoReader == [pc |-> "none", op |-> None, prev |-> <<>>, snapshot |-> <<>>, counted |-> 0]

NoWorker ==
    [pc |-> "none", h |-> NewHandler(0), tx |-> 0, next |-> 1, batch |-> <<>>,
     pending |-> EmptyTx, processed |-> 0, local_errors |-> <<>>,
     committed |-> 0, len |-> 0, why |-> None]

\* A freshly constructed handler (DataHandler::new) on an empty database:
\* one open connection, which holds no lock, and no worker.
FreshLoader ==
    /\ handler = NewHandler(1)
    /\ db = EmptyDb
    /\ before = [handler |-> NewHandler(1), db |-> EmptyDb]
    /\ last = NoCall
    /\ calls = 0
    /\ init_calls = 0
    /\ connections = <<ReferenceConnection>>
    /\ workers = [f \in FILES |-> NoWorker]
    /\ writer = 0

\* No descriptor has been parsed and no line decoded.
NoParser ==
    [pc |-> "new", op |-> None, schema |-> EmptySchema, line |-> <<>>,
     record |-> <<>>, raw_value |-> <<>>, value |-> <<>>]

\* No schema is being resolved, none parsed.
NoSchema == schema = {} /\ resolved = <<>> /\ parser = NoParser

\* No aggregator is in use.
NoThreads ==
    /\ aggregator = NewAggregator
    /\ threads = [t \in 1..MaxThreads |-> NoThread]
    /\ reader = NoReader

\* A call and its return: before keeps the handler and the database the
\* call started from, last what it was and what it returned.
Called(op, f, fault, r) ==
    /\ handler' = r.h
    /\ db' = r.db
    /\ before' = [handler |-> handler, db |-> db]
    /\ last' = [op |-> op, file |-> f, faulty |-> fault # NoFault, res |-> r.res,
                processed |-> r.processed, errors |-> r.errors,
                attempts |-> r.attempts, outcomes |-> r.outcomes,
                progress |-> r.progress, begun |-> r.begun,
                committed |-> r.committed]
    /\ calls' = calls + 1
    /\ UNCHANGED <<dat, keyVars, parser>>

DoInit(files) ==
    /\ \E f \in files, fault \in Faults :
         Called("init", f, fault, init(handler, db, f, dat[f], fault))
    /\ init_calls' = init_calls + 1

DoCreateTable ==
    /\ \E f \in LoaderFiles, fault \in TableFaults :
         Called("create_table", f, fault, create_table_for_file(handler, db, f, fault))
    /\ UNCHANGED init_calls

DoInsertRecords ==
    /\ \E f \in LoaderFiles, fault \in Faults :
         Called("insert_records", f, fault,
                insert_records_for_file(handler, db, f, dat[f], fault))
    /\ UNCHANGED init_calls

DoProcessFile ==
    /\ \E f \in LoaderFiles, fault \in Faults :
         Called("process_file", f, fault, process_file(handler, db, f, dat[f], fault))
    /\ UNCHANGED init_calls

\* The calls of a program that uses one loader on one thread.
Alone == UNCHANGED <<aggregatorVars, coordinatorVars>>

(***************************************************************************)
(* Spec: any sequence of up to MaxCalls calls.  The reference file holds   *)
(* any records; the dependent file alternates a key and a NULL key.        *)
(***************************************************************************)
Init ==
    /\ dat \in [FILES -> SeqsUpTo(Keys, MaxRecords)]
    /\ dat["OFNT3BB1"] = [i \in 1..MaxRecords |-> i % 2]
    /\ dat["INMT4AA1"] = <<>>
    /\ dat["APPT9BJ1"] = <<1>>
    /\ FreshLoader
    /\ NoSchema
    /\ NoThreads
    /\ pc = "api"

CallInit == calls < MaxCalls /\ DoInit(LoaderFiles) /\ Alone

CallCreateTable == calls < MaxCalls /\ DoCreateTable /\ Alone

CallInsertRecords == calls < MaxCalls /\ DoInsertRecords /\ Alone

CallProcessFile == calls < MaxCalls /\ DoProcessFile /\ Alone

Next == CallInit \/ CallCreateTable \/ CallInsertRecords \/ CallProcessFile

Spec == Init /\ [][Next]_vars

(***************************************************************************)
(* SpecLoad: the loader is initialized with the reference file and one     *)
(* more call follows.  Both the reference file and the dependent file hold *)
(* any records.                                                            *)
(***************************************************************************)
InitLoad ==
    /\ dat \in [FILES -> SeqsUpTo(Keys, MaxRecords)]
    /\ dat["INMT4AA1"] = <<>>
    /\ dat["APPT9BJ1"] = <<1>>
    /\ FreshLoader
    /\ NoSchema
    /\ NoThreads
    /\ pc = "api"

LoadReference == calls = 0 /\ DoInit({ReferenceFile}) /\ Alone

ThenInit == calls = 1 /\ DoInit(LoaderFiles) /\ Alone

ThenCreateTable == calls = 1 /\ DoCreateTable /\ Alone

ThenInsertRecords == calls = 1 /\ DoInsertRecords /\ Alone

ThenProcessFile == calls = 1 /\ DoProcessFile /\ Alone

NextLoad ==
    LoadReference \/ ThenInit \/ ThenCreateTable \/ ThenInsertRecords \/ ThenProcessFile

SpecLoad == InitLoad /\ [][NextLoad]_vars

(***************************************************************************)
(* A loader that is used as main.rs uses it, through init and process_file *)
(* only: the reference file is loaded, then process_file is called         *)
(* MaxCalls times, on any file and with any fault.                         *)
(***************************************************************************)
ProcessFile == calls \in 1..MaxCalls /\ DoProcessFile /\ Alone

NextFiles == LoadReference \/ ProcessFile

SpecFiles == InitLoad /\ [][NextFiles]_vars

(***************************************************************************)
(* SpecAgg: k threads share one ErrorAggregator (each holds a clone, which *)
(* shares the vector) and each adds its m errors, through one add_errors   *)
(* call or through m add_error calls.  A call is two steps: the thread     *)
(* takes the mutex and reads the vector's length, then writes behind that  *)
(* length and drops the guard.                                             *)
(***************************************************************************)
Threads == 1..MaxThreads

\* The m errors of thread t, as the tests build them: marked with the
\* thread and numbered.
ErrorsOf(t, m) == [i \in 1..m |-> ErrorDetails(t, "table", i)]

\* A spawned thread that is to add m errors through the calls of mode.
Spawned(t, m, mode) ==
    [pc |-> "call", mode |-> mode, mine |-> ErrorsOf(t, m), todo |-> ErrorsOf(t, m),
     len |-> 0]

InitAgg ==
    /\ dat = [f \in FILES |-> <<>>]
    /\ FreshLoader
    /\ NoSchema
    /\ pc = "threads"
    /\ aggregator = NewAggregator
    /\ reader = NoReader
    /\ \E k \in Threads, m \in 1..MaxErrors,
          modes \in [Threads -> {"add_error", "add_errors"}] :
          threads = [t \in Threads |->
                       IF t <= k THEN Spawned(t, m, modes[t]) ELSE NoThread]

Quiet == UNCHANGED <<loaderVars, coordinatorVars>>

\* self.errors.lock().expect(..) by thread t: the lock is granted when no
\* thread holds it; on a poisoned mutex the expect panics, otherwise the
\* thread is inside the critical section and reads the vector's length.
Enter(t) ==
    /\ CanLock(aggregator)
    /\ IF Poisoned(aggregator)
       THEN /\ threads' = [threads EXCEPT ![t].pc = "panicked"]
            /\ UNCHANGED aggregator
       ELSE /\ aggregator' = Locked(aggregator)
            /\ threads' = [threads EXCEPT ![t].pc = "locked",
                                          ![t].len = Len(aggregator.errors)]
    /\ UNCHANGED reader

\* add_error, entering the critical section.
AddErrorLock(t) ==
    /\ threads[t].pc = "call"
    /\ threads[t].mode = "add_error"
    /\ Enter(t)
    /\ Quiet

\* add_error, the push and the end of the critical section; the thread
\* ends after its last call.
AddErrorPush(t) ==
    /\ threads[t].pc = "locked"
    /\ threads[t].mode = "add_error"
    /\ aggregator' = Stored(aggregator, threads[t].len, <<Head(threads[t].todo)>>)
    /\ threads' = [threads EXCEPT
                     ![t].todo = Tail(@),
                     ![t].len = 0,
                     ![t].pc = IF Tail(threads[t].todo) = <<>> THEN "done" ELSE "call"]
    /\ UNCHANGED reader
    /\ Quiet

\* add_errors, entering the critical section.
AddErrorsLock(t) ==
    /\ threads[t].pc = "call"
    /\ threads[t].mode = "add_errors"
    /\ Enter(t)
    /\ Quiet

Extended_OneByOne(errors) == <<Head(errors)>>

\* add_errors, what its one critical section appends: the whole argument
\* (Vec::extend under the one guard).
Extended(errors) == errors

\* What is left of todo once its first n entries are stored.
Drop(todo, n) == SubSeq(todo, n + 1, Len(todo))

\* add_errors, the extend and the end of the critical section.
AddErrorsExtend(t) ==
    /\ threads[t].pc = "locked"
    /\ threads[t].mode = "add_errors"
    /\ aggregator' = Stored(aggregator, threads[t].len, Extended(threads[t].todo))
    /\ threads' = [threads EXCEPT
                     ![t].todo = Drop(@, Len(Extended(@))),
                     ![t].len = 0,
                     ![t].pc = IF Drop(threads[t].todo, Len(Extended(threads[t].todo))) = <<>>
                               THEN "done" ELSE "call"]
    /\ UNCHANGED reader
    /\ Quiet

NextAgg ==
    \E t \in Threads :
        AddErrorLock(t) \/ AddErrorPush(t) \/ AddErrorsLock(t) \/ AddErrorsExtend(t)

SpecAgg == InitAgg /\ [][NextAgg]_vars

(***************************************************************************)
(* SpecRead: k threads that add, by turns through add_errors and through   *)
(* add_error, a thread that loops over a snapshot and a count while they   *)
(* add, and panics inside the critical section.                            *)
(***************************************************************************)
ModeOf(t) == IF t % 2 = 1 THEN "add_errors" ELSE "add_error"

InitRead ==
    /\ dat = [f \in FILES |-> <<>>]
    /\ FreshLoader
    /\ NoSchema
    /\ pc = "threads"
    /\ aggregator = NewAggregator
    /\ reader = [NoReader EXCEPT !.pc = "run"]
    /\ \E k \in Threads, m \in 1..MaxErrors :
          threads = [t \in Threads |->
                       IF t <= k THEN Spawned(t, m, ModeOf(t)) ELSE NoThread]

\* What a call of the reader returns as value: nothing on a poisoned mutex
\* (the expect panics), otherwise the reader with the value.
Returned(value) ==
    IF Poisoned(aggregator) THEN [reader EXCEPT !.pc = "panicked"] ELSE value

\* What the aggregator is after a call of the reader.
Left(a) == IF Poisoned(a) THEN a ELSE AfterSnapshot(a)

\* get_errors: lock, clone, drop the guard.
GetErrors ==
    /\ reader.pc = "run"
    /\ CanLock(aggregator)
    /\ reader' = Returned([reader EXCEPT !.op = "get_errors",
                                         !.prev = reader.snapshot,
                                         !.snapshot = get_errors(aggregator),
                                         !.counted = 0])
    /\ aggregator' = Left(aggregator)
    /\ UNCHANGED threads
    /\ Quiet

\* count: lock, len, drop the guard.
Count ==
    /\ reader.pc = "run"
    /\ CanLock(aggregator)
    /\ reader' = Returned([reader EXCEPT !.op = "count",
                                         !.counted = count(aggregator)])
    /\ aggregator' = Left(aggregator)
    /\ UNCHANGED threads
    /\ Quiet

\* Thread t panics inside the critical section, before it has written.
Panic(t) ==
    /\ threads[t].pc = "locked"
    /\ aggregator' = Unwound(aggregator, threads[t].len)
    /\ threads' = [threads EXCEPT ![t].pc = "panicked", ![t].len = 0]
    /\ UNCHANGED reader
    /\ Quiet

NextRead ==
    \/ NextAgg
    \/ GetErrors
    \/ Count
    \/ \E t \in Threads : Panic(t)

SpecRead == InitRead /\ [][NextRead]_vars

(***************************************************************************)
(* SpecCoord: main.rs run.  The coordinator loads the reference file with  *)
(* init on its own handler, selects the other files whose data directory   *)
(* exists, and hands each to a task of the thread pool; a task opens its   *)
(* own handler, processes its file batch by batch and reports the file's   *)
(* foreign-key errors to the shared aggregator; the coordinator then       *)
(* merges the aggregator into its handler's error list.                    *)
(*                                                                         *)
(* writer is the connection that holds the engine's write lock (0: none):  *)
(* a connection takes it with the first statement that writes and gives    *)
(* it back when its transaction ends.                                      *)
(***************************************************************************)
InitCoord ==
    /\ dat \in [FILES -> SeqsUpTo(Keys, MaxRecords)]
    /\ dat["OFNT3BB1"] = [i \in 1..MaxRecords |-> i % 2]
    /\ dat["INMT4AA1"] = [i \in 1..BATCH_SIZE |-> 1]
    /\ dat["APPT9BJ1"] = <<1>>
    /\ FreshLoader
    /\ NoSchema
    /\ NoThreads
    /\ pc = "init"

AfterInit_Ignored(res) == "select"

AfterInit_Swallowed(res) == IF res = "Ok" THEN "select" ELSE "done"

\* The ? on the result of init: an error ends run.
AfterInit(res) == IF res = "Ok" THEN "select" ELSE "failed"

\* data_handler.init(reference_file, ..)?
RunInit ==
    /\ pc = "init"
    /\ DoInit({ReferenceFile})
    /\ pc' = AfterInit(last'.res)
    /\ UNCHANGED <<aggregatorVars, connections, workers, writer>>

\* The files handed to the pool.
files_to_process == {f \in FILES : workers[f].pc # "none"}

Queued == [NoWorker EXCEPT !.pc = "queued"]

\* The filter that selects files_to_process (any set of existing data
\* directories), the early return when it is empty, the new aggregator and
\* the copies of the reference binding, which must be set.
RunSelect ==
    /\ pc = "select"
    /\ \E present \in SUBSET (FILES \ {ReferenceFile}) :
         IF present = {}
         THEN pc' = "done" /\ UNCHANGED <<aggregator, workers>>
         ELSE IF None \in {handler.reference_file, handler.reference_table_name,
                           handler.reference_field}
         THEN pc' = "failed" /\ UNCHANGED <<aggregator, workers>>
         ELSE /\ pc' = "parallel"
              /\ aggregator' = NewAggregator
              /\ workers' = [f \in FILES |-> IF f \in present THEN Queued ELSE NoWorker]
    /\ UNCHANGED <<loaderVars, threads, reader, connections, writer>>

\* What a step of the task of file f leaves alone besides what it names.
Task(f) ==
    /\ pc = "parallel"
    /\ UNCHANGED <<dat, handler, before, last, calls, init_calls, threads, reader, pc,
                   keyVars, parser>>

\* The task whose closure has returned after an error, and why: "busy" for
\* the engine's SQLITE_BUSY, "fault" for the environment's fault, "error"
\* for an error that the file and the database determine.
Failed_TransactionKept(w, why) == [w EXCEPT !.pc = "failed", !.why = why]

Failed(w, why) ==
    [w EXCEPT !.pc = "failed", !.tx = 0, !.batch = <<>>, !.pending = EmptyTx, !.why = why]

Cause(fault) == IF fault = NoFault THEN "error" ELSE "fault"

\* The task starts: create_worker_handler, which may fail to open the
\* database, and init_from_reference.
WorkerStart(f) ==
    /\ Task(f)
    /\ workers[f].pc = "queued"
    /\ \E opens \in BOOLEAN :
         IF opens
         THEN LET made == create_worker_handler(connections) IN
              /\ connections' = made.connections
              /\ workers' = [workers EXCEPT
                    ![f].pc = "process",
                    ![f].h = init_from_reference(made.handler, handler.reference_file,
                                 handler.reference_table_name, handler.reference_field)]
         ELSE /\ workers' = [workers EXCEPT ![f] = Failed(@, "fault")]
              /\ UNCHANGED connections
    /\ UNCHANGED <<db, aggregator, writer>>

\* process_file up to the end of create_table_for_file, whose CREATE TABLE
\* runs when no other connection holds the write lock.
WorkerCreateTable(f) ==
    /\ Task(f)
    /\ workers[f].pc = "process"
    /\ writer = 0
    /\ LET w == workers[f] IN
       IF ~w.h.is_initialized
       THEN workers' = [workers EXCEPT ![f] = Failed(@, "error")] /\ UNCHANGED db
       ELSE IF AlreadyProcessed(w.h, f)
       THEN workers' = [workers EXCEPT ![f].pc = "done"] /\ UNCHANGED db
       ELSE \E fault \in TableFaults :
              LET ct == create_table_for_file(w.h, db, f, fault) IN
              IF ct.res = "Err"
              THEN workers' = [workers EXCEPT ![f] = Failed(@, Cause(fault))] /\ UNCHANGED db
              ELSE workers' = [workers EXCEPT ![f].pc = "read"] /\ db' = ct.db
    /\ UNCHANGED <<connections, aggregator, writer>>

\* insert_records_for_file: the parser is opened (before the first batch),
\* the next batch is read, and commit_batch begins its transaction on the
\* handler's connection; at the end of the file the handler takes over the
\* file's errors, process_file marks the file processed, and the task has
\* errors to report or is done.
WorkerRead(f) ==
    /\ Task(f)
    /\ workers[f].pc = "read"
    /\ \E fault \in Faults :
         LET w == workers[f]
             rb == ReadBatch(dat[f], w.next, <<>>, fault)
         IN IF (w.next = 1 /\ fault.kind = "desc") \/ ~rb.ok
            THEN workers' = [workers EXCEPT ![f] = Failed(@, Cause(fault))]
            ELSE IF rb.batch = <<>>
            THEN workers' = [workers EXCEPT
                   ![f].h = [@ EXCEPT !.errors = @ \o w.local_errors,
                                      !.processed_files = @ \cup {f}],
                   ![f].pc = IF w.local_errors # <<>> THEN "report" ELSE "done"]
            ELSE workers' = [workers EXCEPT
                   ![f].batch = rb.batch,
                   ![f].next = rb.next,
                   ![f].tx = w.h.database,
                   ![f].pc = "exec"]
    /\ UNCHANGED <<db, connections, aggregator, writer>>

\* commit_batch, the statements of the batch: the first INSERT takes the
\* write lock, an error other than a foreign-key violation drops the
\* transaction.
WorkerExec(f) ==
    /\ Task(f)
    /\ workers[f].pc = "exec"
    /\ writer = 0
    /\ \E fault \in Faults :
         LET w == workers[f]
             r == IF db.def[to_snake_case(f)].kind = "none" THEN EmptyTx
                  ELSE ExecBatch(db, f, to_snake_case(f), w.batch, 1, EmptyTx, fault)
         IN IF r.ok
            THEN /\ workers' = [workers EXCEPT ![f].pending = r, ![f].pc = "commit"]
                 /\ writer' = w.h.database
            ELSE /\ workers' = [workers EXCEPT ![f] = Failed(@, Cause(fault))]
                 /\ UNCHANGED writer
    /\ UNCHANGED <<db, connections, aggregator>>

\* commit_batch, the commit, which ends the transaction and gives the
\* write lock back, and the bookkeeping of insert_records_for_file.
WorkerCommit(f) ==
    /\ Task(f)
    /\ workers[f].pc = "commit"
    /\ \E fault \in Faults :
         LET w == workers[f] IN
         IF fault.kind = "commit" /\ fault.at = w.committed + 1
         THEN workers' = [workers EXCEPT ![f] = Failed(@, "fault")] /\ UNCHANGED db
         ELSE /\ db' = CommitTx(db, to_snake_case(f), w.pending.txRows)
              /\ workers' = [workers EXCEPT
                    ![f].local_errors = @ \o w.pending.errors,
                    ![f].processed = @ + Len(w.batch),
                    ![f].committed = @ + 1,
                    ![f].batch = <<>>,
                    ![f].pending = EmptyTx,
                    ![f].tx = 0,
                    ![f].pc = "read"]
    /\ writer' = 0
    /\ UNCHANGED <<connections, aggregator>>

\* The engine answers a statement that writes with SQLITE_BUSY when another
\* connection has held the write lock for the whole busy timeout: the
\* error is not a foreign-key violation, so it ends the file.
WorkerBusy(f) ==
    /\ Task(f)
    /\ workers[f].pc \in {"process", "exec"}
    /\ writer \notin {0, workers[f].h.database}
    /\ workers' = [workers EXCEPT ![f] = Failed(@, "busy")]
    /\ UNCHANGED <<db, connections, aggregator, writer>>

\* agg.add_errors(results.errors), entering the critical section.
WorkerAddErrorsLock(f) ==
    /\ Task(f)
    /\ workers[f].pc = "report"
    /\ CanLock(aggregator)
    /\ aggregator' = Locked(aggregator)
    /\ workers' = [workers EXCEPT ![f].pc = "extend", ![f].len = Len(aggregator.errors)]
    /\ UNCHANGED <<db, connections, writer>>

\* agg.add_errors(results.errors), the extend and the end of the task.
WorkerAddErrorsExtend(f) ==
    /\ Task(f)
    /\ workers[f].pc = "extend"
    /\ aggregator' = Stored(aggregator, workers[f].len, workers[f].local_errors)
    /\ workers' = [workers EXCEPT ![f].pc = "done", ![f].len = 0]
    /\ UNCHANGED <<db, connections, writer>>

Joined_NotAwaited == TRUE

\* for_each that returns only when every task has ended with a result.
Joined_AllSucceeded == \A f \in files_to_process : workers[f].pc = "done"

\* par_iter().for_each returns when every task has ended, with a result or
\* with an error.
Joined == \A f \in files_to_process : workers[f].pc \in {"done", "failed"}

\* for_each has returned: every task has ended.  The coordinator extends
\* its handler's errors with the aggregator's and returns the handler.
RunMerge ==
    /\ pc = "parallel"
    /\ Joined
    /\ handler' = [handler EXCEPT !.errors = @ \o get_errors(aggregator)]
    /\ pc' = "done"
    /\ UNCHANGED <<dat, db, before, last, calls, init_calls, aggregatorVars, keyVars, parser,
                   connections, workers, writer>>

WorkerStep(f) ==
    \/ WorkerStart(f)
    \/ WorkerCreateTable(f)
    \/ WorkerRead(f)
    \/ WorkerExec(f)
    \/ WorkerCommit(f)
    \/ WorkerBusy(f)
    \/ WorkerAddErrorsLock(f)
    \/ WorkerAddErrorsExtend(f)

NextCoord == RunInit \/ RunSelect \/ (\E f \in FILES : WorkerStep(f)) \/ RunMerge

SpecCoord == InitCoord /\ [][NextCoord]_vars

(***************************************************************************)
(* SpecKey: get_primary_key_field is called on a schema, any set of the    *)
(* key candidates, to which fields that are no key candidates are added    *)
(* and from which they are removed between the calls.                      *)
(***************************************************************************)
OtherFields == {"CMDOLNAM", "CMCOUNTY", "CMINMSTA"}

InitKey ==
    /\ dat = [f \in FILES |-> <<>>]
    /\ FreshLoader
    /\ NoThreads
    /\ pc = "resolve"
    /\ schema \in SUBSET {KEY_CANDIDATES[i] : i \in 1..Len(KEY_CANDIDATES)}
    /\ resolved = <<>>
    /\ parser = NoParser

KeyAlone == UNCHANGED <<dat, handler, db, before, last, calls, init_calls, parser,
                        aggregatorVars, coordinatorVars>>

\* A call of get_primary_key_field on the schema.
Resolve ==
    /\ Len(resolved) < MaxCalls
    /\ resolved' = Append(resolved, get_primary_key_field(schema))
    /\ UNCHANGED schema
    /\ KeyAlone

\* The schema gains or loses a field that is no key candidate.
AlterSchema ==
    /\ \E field \in OtherFields :
          schema' = IF field \in schema THEN schema \ {field} ELSE schema \cup {field}
    /\ UNCHANGED resolved
    /\ KeyAlone

NextKey == Resolve \/ AlterSchema

SpecKey == InitKey /\ [][NextKey]_vars

(***************************************************************************)
(* The descriptor parser and the decoder alone: a descriptor of at most    *)
(* two lines is parsed once, as FileDescription::new does, then lines are  *)
(* decoded with the schema; or coerce_value is called on raw values with   *)
(* no parser.  parser holds the schema and the last call with its result.  *)
(***************************************************************************)
Spaces(n) == [i \in 1..n |-> " "]

\* The numbers of a descriptor line: zero, small positions, a number with
\* a leading zero and one that does not fit a usize of UsizeBits bits.
DigitTexts == {<<"0">>, <<"1">>, <<"3">>, <<"0", "3">>, <<"9", "9">>}

\* A descriptor line of a field; the type is gap spaces after the
\* description.
DesLine(field_code, gap, start, length) ==
    <<field_code>> \o Spaces(2) \o <<"d">> \o Spaces(gap) \o <<"C">> \o Spaces(1)
        \o start \o Spaces(1) \o length

DesLines ==
    {DesLine(c, g, s, l) : c \in {"F", "G"}, g \in 1..2, s \in DigitTexts, l \in DigitTexts}
        \cup {<<>>, <<" ">>, <<"x", " ", "y">>}

Contents == {<<>>} \cup {<<l>> : l \in DesLines} \cup {<<l, m>> : l \in DesLines, m \in DesLines}

DataLines == SeqsUpTo({" ", "?", "a"}, MaxLen)

\* Raw values: every short text, and the null markers and texts close to
\* them between leading and trailing whitespace.
RawValues ==
    DataLines \cup
    {l \o core \o r :
        l \in {<<>>, <<" ">>, <<"\t", " ">>}, r \in {<<>>, <<" ">>, <<" ", "\t">>},
        core \in {NULL_DATE_MARKER,
                  <<"2", "0", "2", "3", "-", "1", "2", "-", "2", "5">>,
                  <<"0", "0", "0", "1", "-", "0", "1", "-", "0", "2">>,
                  <<"0", "0", "0", "1", "-", "0", "1">>,
                  <<"w", "h", "?", "t">>, <<"?", "?", "?", "?", "?">>,
                  <<"?", "\t", "?">>, <<"1", "2", "3">>}}

InitParse ==
    /\ dat = [f \in FILES |-> <<>>]
    /\ FreshLoader
    /\ NoThreads
    /\ pc = "parse"
    /\ schema = {}
    /\ resolved = <<>>
    /\ parser = NoParser

ParserAlone == UNCHANGED <<dat, handler, db, before, last, calls, init_calls, keyVars,
                           aggregatorVars, coordinatorVars>>

\* The parser after parse_content returned.
Parsed(result) ==
    IF result = <<>>
    THEN [NoParser EXCEPT !.pc = "failed", !.op = "parse_content"]
    ELSE [NoParser EXCEPT !.pc = "ready", !.op = "parse_content", !.schema = result[1]]

\* FileDescription::new on a descriptor.
ParseContent ==
    /\ parser.pc = "new"
    /\ \E content \in Contents : parser' = Parsed(parse_content(content, 1, EmptySchema))
    /\ ParserAlone

\* DataParser::parse_line on a line.
ParseLine ==
    /\ parser.pc = "ready"
    /\ \E line \in DataLines :
          parser' = [parser EXCEPT !.op = "parse_line", !.line = line,
                                   !.record = parse_line(parser.schema, line),
                                   !.raw_value = <<>>, !.value = <<>>]
    /\ ParserAlone

\* DataParser::coerce_value on a raw value: an associated function that
\* takes no parser, called here in behaviours that construct none.
CoerceValue ==
    /\ parser.pc \in {"new", "static"}
    /\ \E raw_value \in RawValues :
          parser' = [parser EXCEPT !.pc = "static",
                                   !.op = "coerce_value", !.raw_value = raw_value,
                                   !.value = coerce_value(raw_value),
                                   !.line = <<>>, !.record = <<>>]
    /\ ParserAlone

NextParse == ParseContent \/ ParseLine \/ CoerceValue

SpecParse == InitParse /\ [][NextParse]_vars

(***************************************************************************)
(* Properties of the loader.  They are stated of the state after a call:   *)
(* last is the call, before the handler and database it started from.      *)
(***************************************************************************)
InsertOps == {"init", "process_file", "insert_records"}

Fatal == {"constraint", "error"}

\* The rows the last call appended to table t.
Added(t) == SubSeq(db.rows[t], Len(before.db.rows[t]) + 1, Len(db.rows[t]))

\* Table t carries a foreign key to a table that has the referenced field
\* as its primary key.
WellFormedFk(d, t) ==
    /\ d.def[t].kind = "fk"
    /\ d.def[t].ref_table \in Tables
    /\ d.def[d.def[t].ref_table].kind = "pk"
    /\ d.def[d.def[t].ref_table].key = d.def[t].ref_field

\* The lines of file f whose key is not NULL and not a key of a row of
\* the parent table.
Orphans(d, f, parent) ==
    {i \in 1..Len(dat[f]) : dat[f][i] # NULL /\ dat[f][i] \notin KeysOf(d.rows[parent])}

\* The rows of the lines 1..n of file f that the engine accepted.
AcceptedRows(f, outcomes, n) ==
    LET accepted(r) == outcomes[r.line] = "ok" IN
    SelectSeq([l \in 1..n |-> [file |-> f, line |-> l, key |-> dat[f][l]]], accepted)

\* The first position of a fatal outcome in a trace; 0 when there is none.
FirstFatal(outcomes) ==
    IF \E i \in 1..Len(outcomes) : outcomes[i] \in Fatal
    THEN CHOOSE i \in 1..Len(outcomes) :
            /\ outcomes[i] \in Fatal
            /\ \A j \in 1..(i - 1) : outcomes[j] \notin Fatal
    ELSE 0

\* The last line of the batches that precede the batch of line l.
BatchStart(l) == ((l - 1) \div BATCH_SIZE) * BATCH_SIZE

C3_FatalErrorAbortsBatch ==
    (/\ last.op \in InsertOps
     /\ FirstFatal(last.outcomes) # 0)
    => LET i == FirstFatal(last.outcomes)
           added == Added(to_snake_case(last.file))
       IN /\ i = Len(last.outcomes)
          /\ last.res = "Err"
          /\ \A n \in 1..Len(added) : added[n].line <= BatchStart(last.attempts[i])
          /\ handler.processed_files = before.handler.processed_files

C3_Witness ==
    /\ last.op \in InsertOps
    /\ last.res = "Err"
    /\ \E i \in 2..Len(last.outcomes) :
          /\ last.outcomes[i] = "constraint"
          /\ last.outcomes[i - 1] = "ok"
          /\ BatchStart(last.attempts[i]) = BatchStart(last.attempts[i - 1])
          /\ \A n \in 1..Len(db.rows[to_snake_case(last.file)]) :
                db.rows[to_snake_case(last.file)][n].line # last.attempts[i - 1]

\* C4: when a fatal engine error aborts the insertion of a file in a batch
\* after the first, the rows that the earlier batches committed are in the
\* table after the call, behind the rows the table had before: exactly the
\* accepted records of the earlier batches were appended.
C4_CommittedBatchesRemain ==
    (/\ last.op \in InsertOps
     /\ FirstFatal(last.outcomes) # 0
     /\ last.attempts[FirstFatal(last.outcomes)] > BATCH_SIZE)
    => LET i == FirstFatal(last.outcomes)
           f == last.file
           t == to_snake_case(f)
       IN /\ SubSeq(db.rows[t], 1, Len(before.db.rows[t])) = before.db.rows[t]
          /\ Added(t) = AcceptedRows(f, last.outcomes, BatchStart(last.attempts[i]))
          /\ last.committed = BatchStart(last.attempts[i]) \div BATCH_SIZE

C4_Witness ==
    /\ last.op \in InsertOps
    /\ last.res = "Err"
    /\ FirstFatal(last.outcomes) # 0
    /\ last.attempts[FirstFatal(last.outcomes)] > BATCH_SIZE
    /\ Len(Added(to_snake_case(last.file))) >= 1

\* C5: on a handler on which init was never called, process_file and
\* create_table_for_file return an error for every file and change nothing:
\* no table, no row, and the handler stays as constructed.
C5_NotInitialized ==
    (/\ init_calls = 0
     /\ last.op \in {"process_file", "create_table"})
    => (/\ last.res = "Err"
        /\ db = before.db
        /\ \A t \in Tables : db.def[t] = NoTable /\ db.rows[t] = <<>>
        /\ handler = NewHandler(handler.database))

C5_Witness ==
    /\ init_calls = 0
    /\ last.op \in {"process_file", "create_table"}
    /\ ~last.faulty
    /\ get_primary_key_field(Schema(last.file)) # None
    /\ last.res = "Err"
    /\ ~handler.is_initialized

\* C6: a call of init on a handler on which init has already succeeded (the
\* handler has loaded its reference file) fails and changes nothing.
C6_InitOnlyOnce ==
    (/\ last.op = "init"
     /\ before.handler.is_initialized
     /\ before.handler.reference_file \in before.handler.processed_files)
    => (/\ last.res = "Err"
        /\ handler = before.handler
        /\ db = before.db)

Binding(h) == <<h.reference_file, h.reference_table_name, h.reference_field>>

\* C7: once the reference binding of the handler is set, no call changes it.
C7_BindingReadOnly ==
    Binding(before.handler) # Binding(NewHandler(1))
    => Binding(handler) = Binding(before.handler)

(***************************************************************************)
(* Properties of the coordinator.                                          *)
(***************************************************************************)
\* The task of file f has started.
Started(f) == workers[f].pc \notin {"none", "queued"}

\* The handler of the task of file f exists.
HasHandler(f) == Started(f) /\ workers[f].h.database # 0

\* The number of batches of a file of n records.
Batches(n) == (n + BATCH_SIZE - 1) \div BATCH_SIZE

\* C8: in every state of the coordinator in which a task has started, or a
\* table other than the reference table exists or holds a row, init has
\* returned, successfully: the reference table exists with its primary
\* key, every batch of the reference file has been committed and every
\* record of the reference file is a row of the reference table.
C8_HardBarrier ==
    (\E f \in FILES :
        \/ Started(f)
        \/ /\ f # ReferenceFile
           /\ \/ db.def[to_snake_case(f)] # NoTable
              \/ db.rows[to_snake_case(f)] # <<>>)
    => LET ref == to_snake_case(ReferenceFile)
           N == Len(dat[ReferenceFile])
       IN /\ pc \notin {"init", "failed"}
          /\ last.op = "init"
          /\ last.file = ReferenceFile
          /\ last.res = "Ok"
          /\ db.def[ref].kind = "pk"
          /\ last.committed = Batches(N)
          /\ [i \in 1..Len(db.rows[ref]) |-> db.rows[ref][i].line] = [i \in 1..N |-> i]

C8_Witness ==
    /\ pc = "parallel"
    /\ Len(db.rows[to_snake_case(ReferenceFile)]) > BATCH_SIZE
    /\ last.committed > 1
    /\ \E f \in FILES :
          /\ f # ReferenceFile
          /\ workers[f].pc = "commit"
          /\ workers[f].committed >= 1
          /\ db.rows[to_snake_case(f)] # <<>>

\* C9: every task's handler has a connection of its own: it is not the
\* connection of the reference loader and not the connection of another
\* task's handler; a task's open transaction runs on the connection of its
\* own handler, so no two tasks are inside the same transaction.
C9_OwnConnection ==
    \A f \in FILES :
        HasHandler(f) =>
            /\ workers[f].h.database # handler.database
            /\ workers[f].h.database \in 1..Len(connections)
            /\ workers[f].tx \in {0, workers[f].h.database}
            /\ \A g \in FILES \ {f} :
                  HasHandler(g) =>
                      /\ workers[g].h.database # workers[f].h.database
                      /\ workers[f].tx # 0 => workers[g].tx # workers[f].tx

C9_Witness ==
    \E f \in FILES, g \in FILES :
        /\ f # g
        /\ workers[f].pc = "commit"
        /\ workers[g].pc = "exec"
        /\ workers[f].tx # 0
        /\ workers[g].tx # 0
        /\ workers[f].tx # workers[g].tx

(***************************************************************************)
(* Properties of the aggregator.                                           *)
(***************************************************************************)
\* The number of times entry e occurs in sequence s.
Occurrences(s, e) == Cardinality({i \in 1..Len(s) : s[i] = e})

\* The threads that were spawned, and the number of errors each adds.
SpawnedThreads == {t \in Threads : threads[t].pc # "none"}

\* C10: once all k threads have finished their m additions (one add_errors
\* call or m add_error calls each), count() is k*m and the snapshot holds
\* every entry of every thread exactly once.
C10_NoLostNoDuplicate ==
    (\A t \in SpawnedThreads : threads[t].pc = "done")
    => /\ \A t \in SpawnedThreads :
             count(aggregator) = Cardinality(SpawnedThreads) * Len(threads[t].mine)
       /\ \A t \in SpawnedThreads : \A i \in 1..Len(threads[t].mine) :
             Occurrences(get_errors(aggregator), threads[t].mine[i]) = 1
       /\ \A i \in 1..count(aggregator) :
             \E t \in SpawnedThreads : \E j \in 1..Len(threads[t].mine) :
                get_errors(aggregator)[i] = threads[t].mine[j]

C10_Witness ==
    /\ Cardinality(SpawnedThreads) = MaxThreads
    /\ \A t \in SpawnedThreads : threads[t].pc = "done" /\ Len(threads[t].mine) >= 2
    /\ \E t \in SpawnedThreads : threads[t].mode = "add_error"
    /\ \E t \in SpawnedThreads : threads[t].mode = "add_errors"
    /\ count(aggregator) = MaxThreads * Len(threads[1].mine)
    /\ get_errors(aggregator)[1].file_id # get_errors(aggregator)[2].file_id

\* The positions at which the entries of block occur in s as one run, in
\* the order of block.
RunsOf(s, block) ==
    {p \in 1..Len(s) : /\ p + Len(block) - 1 <= Len(s)
                       /\ SubSeq(s, p, p + Len(block) - 1) = block}

\* The threads whose one add_errors call has returned.
AddedMany == {t \in SpawnedThreads : threads[t].mode = "add_errors" /\ threads[t].pc = "done"}

\* C11: under every interleaving, the entries of one add_errors call stand
\* in the stored sequence as one run, in the order they were given, with no
\* entry of another caller between them.
C11_AddManyContiguous ==
    \A t \in AddedMany : RunsOf(get_errors(aggregator), threads[t].mine) # {}

\* An add_errors call of two entries whose run has entries of another
\* caller, who adds one entry per call, before it and after it.
C11_Witness ==
    \E t \in AddedMany : \E u \in SpawnedThreads :
        /\ Len(threads[t].mine) >= 2
        /\ threads[u].mode = "add_error"
        /\ \E p \in RunsOf(get_errors(aggregator), threads[t].mine) :
              /\ p > 1
              /\ p + Len(threads[t].mine) - 1 < count(aggregator)
              /\ get_errors(aggregator)[p - 1].file_id = u
              /\ get_errors(aggregator)[p + Len(threads[t].mine)].file_id = u

\* s is the beginning of t.
IsPrefix(s, t) == Len(s) <= Len(t) /\ SubSeq(t, 1, Len(s)) = s

\* The step is a call of the reader that returned: a snapshot, or a count.
SnapshotStep == reader' # reader /\ reader'.pc = "run" /\ reader'.op = "get_errors"

CountStep == reader' # reader /\ reader'.pc = "run" /\ reader'.op = "count"

\* C12: the stored sequence only grows at its end and no call of the
\* reader changes it; a snapshot is the stored sequence, so it equals the
\* snapshot before it when nothing was added in between and otherwise
\* begins with it; count() is the length of the snapshot.
C12_SnapshotReadOnly ==
    [][/\ IsPrefix(get_errors(aggregator), get_errors(aggregator)')
       /\ reader' # reader => get_errors(aggregator)' = get_errors(aggregator)
       /\ SnapshotStep =>
             /\ reader'.snapshot = get_errors(aggregator)
             /\ reader'.prev = reader.snapshot
             /\ IsPrefix(reader'.prev, reader'.snapshot)
             /\ get_errors(aggregator) = reader.snapshot => reader'.snapshot = reader'.prev
       /\ CountStep =>
             /\ reader'.counted = Len(get_errors(aggregator))
             /\ reader'.snapshot = reader.snapshot
       /\ count(aggregator) = Len(get_errors(aggregator))]_vars

\* Two snapshots were taken with additions before the first and between
\* them, more was added after the second, and the count was taken with the
\* second.
C12_Witness ==
    /\ reader.prev # <<>>
    /\ Len(reader.prev) < Len(reader.snapshot)
    /\ Len(reader.snapshot) < count(aggregator)
    /\ reader.counted = Len(reader.snapshot)

\* C13: once a thread has panicked inside the critical section, every
\* later add_error, add_errors, get_errors and count panics: the only steps
\* left are calls that end in a panic, none stores or returns anything.
C13_PoisonedIsFatal ==
    [][aggregator.poisoned =>
         /\ aggregator' = aggregator
         /\ \A t \in Threads :
               threads'[t] # threads[t] =>
                  /\ threads[t].pc = "call"
                  /\ threads'[t] = [threads[t] EXCEPT !.pc = "panicked"]
         /\ reader' # reader => reader' = [reader EXCEPT !.pc = "panicked"]]_vars

\* A thread panicked inside the critical section; the other thread, which
\* adds through the other method, and the reader have called after it and
\* panicked.
C13_Witness ==
    /\ aggregator.poisoned
    /\ reader.pc = "panicked"
    /\ \E t \in Threads, u \in Threads :
          /\ threads[t].pc = "panicked" /\ threads[t].mode = "add_error"
          /\ threads[u].pc = "panicked" /\ threads[u].mode = "add_errors"
    /\ \A t \in SpawnedThreads : threads[t].pc = "panicked"
    /\ Cardinality(SpawnedThreads) = MaxThreads

(***************************************************************************)
(* Properties of the coordinator's error list.                             *)
(***************************************************************************)
\* The tasks whose process_file returned Ok(Some(results)) and that have
\* handed results.errors on.
Reported == {f \in FILES : workers[f].pc = "done"}

\* The errors of the reference loader: those of its init.
ReferenceErrors == before.handler.errors \o last.errors

\* C14: a task adds the errors of its file in one add_errors call, after
\* the file is finished, so they stand in the aggregator as one run and no
\* error of an unfinished task is there; the coordinator snapshots only
\* when every task has ended, and the session's error list is then the
\* reference loader's errors followed by the errors the tasks returned,
\* each once and nothing else.
C14_MergedAfterJoin ==
    /\ pc \in {"parallel", "done"} =>
          /\ \A f \in Reported :
                workers[f].local_errors # <<>> =>
                   RunsOf(get_errors(aggregator), workers[f].local_errors) # {}
          /\ \A i \in 1..count(aggregator) :
                \E f \in Reported : get_errors(aggregator)[i].file_id = f
    /\ pc = "done" =>
          /\ \A f \in FILES : workers[f].pc \in {"none", "done", "failed"}
          /\ handler.errors = ReferenceErrors \o get_errors(aggregator)
          /\ \A f \in Reported : \A i \in 1..Len(workers[f].local_errors) :
                Occurrences(handler.errors, workers[f].local_errors[i]) = 1
          /\ \A i \in 1..Len(handler.errors) :
                \/ i <= Len(ReferenceErrors)
                \/ \E f \in Reported : \E j \in 1..Len(workers[f].local_errors) :
                      handler.errors[i] = workers[f].local_errors[j]

\* The run has ended after two tasks returned errors, which the session's
\* list holds, and a third task failed.
C14_Witness ==
    /\ pc = "done"
    /\ \E f \in Reported, g \in Reported :
          /\ f # g
          /\ Len(workers[f].local_errors) >= 2
          /\ Len(workers[g].local_errors) >= 2
          /\ Len(handler.errors) =
                Len(workers[f].local_errors) + Len(workers[g].local_errors)
    /\ \E f \in FILES : workers[f].pc = "failed"

(***************************************************************************)
(* Properties of the parallel phase's outcome.                             *)
(***************************************************************************)
\* The database the parallel phase starts from: of the final database, the
\* reference table, which no task writes.
ReferenceOnly ==
    [def |-> [t \in Tables |-> IF t = handler.reference_table_name THEN db.def[t]
                                ELSE NoTable],
     rows |-> [t \in Tables |-> IF t = handler.reference_table_name THEN db.rows[t]
                                 ELSE <<>>]]

\* What the task of file f does when it runs alone, without a fault.
AloneResult(f) ==
    process_file(init_from_reference(NewHandler(0), handler.reference_file,
                                     handler.reference_table_name,
                                     handler.reference_field),
                 ReferenceOnly, f, dat[f], NoFault)

\* The table of file f and the errors reported for it are those of r.
SameOutcome(f, r) ==
    /\ db.def[to_snake_case(f)] = r.db.def[to_snake_case(f)]
    /\ db.rows[to_snake_case(f)] = r.db.rows[to_snake_case(f)]
    /\ {i \in 1..Len(handler.errors) : handler.errors[i].file_id = f} # {}
          <=> (r.res = "Ok" /\ r.errors # <<>>)
    /\ \A i \in 1..Len(handler.errors) :
          handler.errors[i].file_id = f =>
             \E j \in 1..Len(r.errors) : handler.errors[i] = r.errors[j]
    /\ r.res = "Ok" =>
          \A j \in 1..Len(r.errors) : Occurrences(handler.errors, r.errors[j]) = 1

\* No fault of the environment has struck a task.
NoTaskFault == \A f \in FILES : workers[f].why # "fault"

\* C15: when the run has ended and no fault of the environment struck a
\* task, the table of every file handed to the pool and the errors
\* reported for it are the ones its task produces when it runs alone,
\* whatever the order and interleaving of the tasks was.
C15_OrderIndependent ==
    (pc = "done" /\ NoTaskFault) =>
       \A f \in files_to_process : SameOutcome(f, AloneResult(f))

\* C17: no task ends with an error because the engine answered that the
\* database is busy.
C17_BusyIsRetried == \A f \in FILES : workers[f].why # "busy"

(***************************************************************************)
(* Properties of the reference load in run.                                *)
(***************************************************************************)
\* The fault strikes a load of a file with n records: the descriptor or the
\* table statement fails, or the data file cannot be opened, or a record
\* that exists cannot be read or inserted, or a batch that exists cannot be
\* committed.
Strikes(fault, n) ==
    \/ fault.kind \in {"desc", "ddl"}
    \/ fault.kind = "read" /\ (fault.at = 1 \/ fault.at <= n)
    \/ fault.kind = "exec" /\ fault.at <= n
    \/ fault.kind = "commit" /\ (fault.at - 1) * BATCH_SIZE < n

\* C16: the init that run is about to call fails when its file has no
\* primary key and when a fault strikes its load; and whenever init has
\* failed, run has returned the error: no task was started, no connection
\* opened for one, and no table other than the reference table exists.
C16_ReferenceFailureIsFatal ==
    /\ pc = "init" =>
          /\ \A f \in FILES :
                get_primary_key_field(Schema(f)) = None =>
                   init(handler, db, f, dat[f], NoFault).res = "Err"
          /\ \A fault \in Faults :
                Strikes(fault, Len(dat[ReferenceFile])) =>
                   init(handler, db, ReferenceFile, dat[ReferenceFile], fault).res = "Err"
    /\ (last.op = "init" /\ last.res = "Err") =>
          /\ pc = "failed"
          /\ \A f \in FILES : workers[f].pc = "none"
          /\ connections = <<ReferenceConnection>>
          /\ \A t \in Tables \ {to_snake_case(ReferenceFile)} :
                db.def[t] = NoTable /\ db.rows[t] = <<>>

\* init has failed in the load after it had committed a batch of the
\* reference file, and run has ended with the error.
C16_Witness ==
    /\ last.op = "init"
    /\ last.res = "Err"
    /\ last.committed >= 1
    /\ db.rows[to_snake_case(ReferenceFile)] # <<>>
    /\ pc = "failed"

(***************************************************************************)
(* Properties of the connections.                                          *)
(***************************************************************************)
\* C19: the connection of the reference loader enforces foreign keys and
\* keeps synchronous = FULL; every other connection, however many tasks
\* have opened one, enforces foreign keys and has synchronous = NORMAL, and
\* the handler of every task has such a connection.
C19_ConnectionPragmas ==
    /\ connections[handler.database] = [foreign_keys |-> TRUE, synchronous |-> "FULL"]
    /\ \A c \in 1..Len(connections) :
          c # handler.database =>
             connections[c] = [foreign_keys |-> TRUE, synchronous |-> "NORMAL"]
    /\ \A f \in FILES :
          HasHandler(f) =>
             /\ workers[f].h.database \in 1..Len(connections)
             /\ workers[f].h.database # handler.database

\* Three tasks have opened a connection each while the reference loader
\* has its own.
C19_Witness ==
    /\ Len(connections) = Cardinality(FILES)
    /\ \A f \in FILES \ {ReferenceFile} : HasHandler(f)
    /\ connections[handler.database].synchronous = "FULL"

(***************************************************************************)
(* Properties of the tables' constraints.                                  *)
(***************************************************************************)
\* The constraint of table t is the one the binding of handler h asks for:
\* the primary key on the reference field for the reference table, for any
\* other table a foreign key on its own key field to the reference field
\* of the reference table.
ConstraintOf(h, t) ==
    IF t = h.reference_table_name
    THEN db.def[t].kind = "pk" /\ db.def[t].key = h.reference_field
    ELSE /\ db.def[t].kind = "fk"
         /\ \E f \in FILES : t = to_snake_case(f)
                              /\ db.def[t].key = get_primary_key_field(Schema(f))
         /\ db.def[t].ref_table = h.reference_table_name
         /\ db.def[t].ref_field = h.reference_field

\* C18: of the tables that exist, exactly the reference table of the
\* loader's binding has the primary key, and every other table has a
\* foreign key that references that binding.
C18_OnlyReferenceTableHasPrimaryKey ==
    \A t \in Tables : db.def[t] # NoTable => ConstraintOf(handler, t)

(***************************************************************************)
(* Properties of the key resolution.                                       *)
(***************************************************************************)
\* The key candidates that are fields of the schema.
Present == {k \in {"CMDORNUM", "CIDORNUM", "CDDORNUM"} : k \in schema}

\* C20: every call on the schema returns CMDORNUM when the schema has it,
\* otherwise CIDORNUM when it has that, otherwise CDDORNUM when it has
\* that, whatever other fields the schema has or had at the call; and it
\* reports that there is no key exactly when it has none of the three.
C20_FirstCandidateInOrder ==
    /\ \A i \in 1..Len(resolved) :
          /\ resolved[i] = IF "CMDORNUM" \in schema THEN "CMDORNUM"
                           ELSE IF "CIDORNUM" \in schema THEN "CIDORNUM"
                           ELSE IF "CDDORNUM" \in schema THEN "CDDORNUM"
                           ELSE None
          /\ resolved[i] = resolved[1]
          /\ resolved[i] = None <=> Present = {}
    /\ get_primary_key_field(schema) = get_primary_key_field(Present)

\* Two calls have returned CIDORNUM on a schema that has the second and
\* the third candidate and a field that is no candidate.
C20_Witness ==
    /\ Len(resolved) = MaxCalls
    /\ resolved[1] = "CIDORNUM"
    /\ Present = {"CIDORNUM", "CDDORNUM"}
    /\ schema \ Present # {}

(***************************************************************************)
(* Properties of the decoder and of the descriptor parser.                 *)
(***************************************************************************)
\* The texts left of raw when whitespace, and all of it, is taken from
\* both of its ends.
TrimmedOf(raw) ==
    {SubSeq(raw, i + 1, Len(raw) - j) : i \in 0..Len(raw), j \in 0..Len(raw)}
        \cap {t \in {SubSeq(raw, i + 1, Len(raw) - j) : i \in 0..Len(raw), j \in 0..Len(raw)} :
                 \E i \in 0..Len(raw), j \in 0..Len(raw) :
                    /\ i + j <= Len(raw)
                    /\ t = SubSeq(raw, i + 1, Len(raw) - j)
                    /\ \A k \in 1..i : IsWhitespace(raw[k])
                    /\ \A k \in (Len(raw) - j + 1)..Len(raw) : IsWhitespace(raw[k])
                    /\ t # <<>> => ~IsWhitespace(t[1]) /\ ~IsWhitespace(t[Len(t)])}

\* A trimmed text that stands for null.
IsNullMarker(t) ==
    \/ t = <<>>
    \/ t = NULL_DATE_MARKER
    \/ Len(t) >= 1 /\ \A k \in 1..Len(t) : t[k] = "?"

\* C21: coerce_value trims the whitespace of both ends of the raw value
\* and returns None exactly when the trimmed text is empty, is 0001-01-01
\* or is made of question marks only, and else the trimmed text unchanged;
\* two calls in a row on the same raw value return the same.
C21_CoercionRules ==
    /\ [](parser.op = "coerce_value" =>
            /\ TrimmedOf(parser.raw_value) # {}
            /\ \A t \in TrimmedOf(parser.raw_value) :
                  parser.value = IF IsNullMarker(t) THEN <<>> ELSE <<t>>)
    /\ [][parser.op = "coerce_value" /\ parser'.op = "coerce_value"
            /\ parser'.raw_value = parser.raw_value
          => parser'.value = parser.value]_vars

\* A raw value with whitespace at both ends and a question mark among
\* other characters was coerced to its trimmed text.
C21_Witness ==
    /\ parser.op = "coerce_value"
    /\ Len(parser.raw_value) > 4
    /\ IsWhitespace(parser.raw_value[1])
    /\ IsWhitespace(parser.raw_value[Len(parser.raw_value)])
    /\ parser.value = <<(<<"w", "h", "?", "t">>)>>

\* The characters of the line at the positions start..start+length-1 that
\* the line has.
Available(field_def, line) ==
    LET last_position == IF Len(line) < field_def.start - 1 + field_def.length
                         THEN Len(line) ELSE field_def.start - 1 + field_def.length
    IN  [k \in 1..(last_position - (field_def.start - 1)) |-> line[field_def.start - 1 + k]]

\* C22: parse_line never fails, its record has one entry for each field
\* of the schema, and the entry of a field (start >= 1) is the coerced
\* text of the positions [start-1, start-1+length) of the line: all of
\* them when the line reaches the end of the slice, those the line has
\* when it ends inside the slice, none (hence null) when it ends at or
\* before start-1.
C22_SliceOfLine ==
    parser.op = "parse_line" =>
        /\ parser.record # <<>>
        /\ DOMAIN parser.record[1] = DOMAIN parser.schema
        /\ \A field_code \in DOMAIN parser.schema :
              parser.schema[field_code].start >= 1 =>
                  parser.record[1][field_code]
                      = coerce_value(Available(parser.schema[field_code], parser.line))

\* A line that ends inside the slice of a field was decoded, and the
\* field has the remainder of the line as its value.
C22_Witness ==
    /\ parser.op = "parse_line"
    /\ parser.record # <<>>
    /\ \E field_code \in DOMAIN parser.schema :
          /\ parser.schema[field_code].start >= 2
          /\ Len(parser.line) > parser.schema[field_code].start - 1
          /\ Len(parser.line) < parser.schema[field_code].start - 1
                                    + parser.schema[field_code].length
          /\ parser.record[1][field_code]
                = <<SubSeq(parser.line, parser.schema[field_code].start, Len(parser.line))>>

\* C23: every field of a schema that parse_content returned has a start
\* of at least 1 and a length of at least 1.
C23_PositionsAtLeastOne ==
    parser.pc = "ready" =>
        \A field_code \in DOMAIN parser.schema :
            /\ parser.schema[field_code].start >= 1
            /\ parser.schema[field_code].length >= 1

(***************************************************************************)
(* Properties of the batches of a call.                                    *)
(***************************************************************************)
RECURSIVE SumSeq(_)
SumSeq(s) == IF s = <<>> THEN 0 ELSE Head(s) + SumSeq(Tail(s))

\* The lines of the b-th batch that the last call handed to the engine.
AttemptedOf(b) ==
    {i \in 1..Len(last.attempts) : BatchStart(last.attempts[i]) = (b - 1) * BATCH_SIZE}

\* The rows of the b-th batch that the last call appended to table t.
AddedOf(t, b) ==
    {n \in 1..Len(Added(t)) : BatchStart(Added(t)[n].line) = (b - 1) * BATCH_SIZE}

\* The progress callback is invoked once after each committed batch and
\* for no other batch.
OncePerCommittedBatch ==
    /\ Len(last.progress) = last.committed
    /\ last.committed <= last.begun
    /\ \A b \in (last.committed + 1)..last.begun : AddedOf(to_snake_case(last.file), b) = {}

\* C24, as stated: the progress callback is invoked once after each
\* committed batch and for no other, with the number of records that the
\* batch committed, so that the values of a call sum to the rows the call
\* committed to the table.
C24_ProgressCountsCommittedRows ==
    last.op \in InsertOps =>
        /\ OncePerCommittedBatch
        /\ \A b \in 1..Len(last.progress) :
              last.progress[b] = Cardinality(AddedOf(to_snake_case(last.file), b))
        /\ SumSeq(last.progress) = Len(Added(to_snake_case(last.file)))

\* C24, amended: the progress callback is invoked once after each committed
\* batch and for no other, with the number of records of the batch, those
\* skipped for a foreign-key violation included; the values of a call sum
\* to the rows the call committed plus the violations it recorded, which is
\* the processed count of a call that succeeds.
C24_ProgressCountsBatchRecords ==
    last.op \in InsertOps =>
        /\ OncePerCommittedBatch
        /\ \A b \in 1..Len(last.progress) :
              /\ last.progress[b] = Cardinality(AttemptedOf(b))
              /\ last.progress[b] >= Cardinality(AddedOf(to_snake_case(last.file), b))
        /\ SumSeq(last.progress)
              = Len(Added(to_snake_case(last.file))) + Len(last.errors)
        /\ last.res = "Ok" => SumSeq(last.progress) = last.processed

\* A call committed a full batch in which a record was skipped for a
\* foreign-key violation, reported it once, and failed in the next batch,
\* for which nothing was reported.
C24_Witness ==
    /\ last.op \in InsertOps
    /\ last.res = "Err"
    /\ last.progress = <<BATCH_SIZE>>
    /\ last.begun = 2
    /\ last.committed = 1
    /\ Len(last.errors) >= 1
    /\ Len(Added(to_snake_case(last.file))) < BATCH_SIZE

\* The task of file f is inside commit_batch.
InCommitBatch(f) == workers[f].pc \in {"exec", "commit"}

\* C25: a transaction is open on a task's connection only inside
\* commit_batch, one at most on a connection; when commit_batch has
\* returned, with success or with an error, none is open and the table
\* holds the rows of the committed batches only: a transaction that was
\* begun was committed with all records of its batch attempted, or was
\* rolled back and left no row.
C25_TransactionEndsOnce ==
    \A f \in FILES :
        /\ workers[f].tx # 0 => InCommitBatch(f) /\ workers[f].tx = workers[f].h.database
        /\ InCommitBatch(f) => workers[f].tx # 0
        /\ \A g \in FILES \ {f} : workers[f].tx # 0 => workers[g].tx # workers[f].tx
        /\ ~InCommitBatch(f) => workers[f].pending = EmptyTx
        /\ (Started(f) /\ f # ReferenceFile) =>
              /\ \A n \in 1..Len(db.rows[to_snake_case(f)]) :
                    db.rows[to_snake_case(f)][n].line <= workers[f].committed * BATCH_SIZE
              /\ workers[f].processed
                    = Cardinality({l \in 1..Len(dat[f]) : l <= workers[f].committed * BATCH_SIZE})

\* A task committed its first batch, began the transaction of the second
\* and failed in it: no transaction is open and the table holds rows of
\* the first batch only.
C25_Witness ==
    \E f \in FILES \ {ReferenceFile} :
        /\ workers[f].pc = "failed"
        /\ workers[f].committed = 1
        /\ workers[f].next = BATCH_SIZE + 2
        /\ workers[f].tx = 0
        /\ Len(db.rows[to_snake_case(f)]) >= 1

\* C26: a file is in processed_files only if the handler is initialized
\* and the file's table exists, and it has joined processed_files only in
\* an init or process_file call on it that returned Ok after it attempted
\* every record and committed every batch of the file; a call that returns
\* an error adds no file.
C26_ProcessedOnlyAfterFullLoad ==
    /\ \A f \in handler.processed_files :
          /\ handler.is_initialized
          /\ db.def[to_snake_case(f)] # NoTable
    /\ \A f \in handler.processed_files \ before.handler.processed_files :
          /\ last.op \in {"init", "process_file"}
          /\ last.file = f
          /\ last.res = "Ok"
          /\ last.attempts = [i \in 1..Len(dat[f]) |-> i]
          /\ last.committed = Batches(Len(dat[f]))
          /\ last.begun = last.committed
    /\ last.res = "Err" => handler.processed_files = before.handler.processed_files

\* On a handler that has processed its reference file, process_file on
\* another file committed a batch and then returned an error: the file is
\* not in processed_files.
C26_Witness ==
    /\ last.op = "process_file"
    /\ last.res = "Err"
    /\ last.committed >= 1
    /\ handler.processed_files # {}
    /\ last.file \notin handler.processed_files

\* C27: no record of a file is committed to its table more than once: in
\* every table the rows are of pairwise different records.
C27_NoRecordCommittedTwice ==
    \A t \in Tables :
        \A m \in 1..Len(db.rows[t]), n \in 1..Len(db.rows[t]) :
            (db.rows[t][m].file = db.rows[t][n].file
                /\ db.rows[t][m].line = db.rows[t][n].line) => m = n

\* The positions of the trace of the last call at which a record of a
\* committed batch met a foreign-key violation.
CommittedViolations ==
    {i \in 1..Len(last.outcomes) :
        /\ IsForeignKeyViolation(last.outcomes[i])
        /\ last.attempts[i] <= last.committed * BATCH_SIZE}

\* C28: after a call that inserts the records of a file, every foreign-key
\* violation met in a batch that the call committed is among the errors
\* that the call added to the handler's error list, whether the call
\* returned Ok or the error of a later batch.
C28_CommittedViolationsReported ==
    last.op \in InsertOps =>
        \A i \in CommittedViolations :
            \E n \in (Len(before.handler.errors) + 1)..Len(handler.errors) :
                handler.errors[n]
                    = ErrorDetails(last.file, to_snake_case(last.file), last.attempts[i])

\* C29, as stated: an init call that returns an error leaves the handler
\* as it was before the call; when that handler was not initialized, it is still not
\* initialized and has no reference binding, and process_file on it
\* returns an error for every file.
C29_FailedInitLeavesLoader ==
    (last.op = "init" /\ last.res = "Err") =>
        /\ handler = before.handler
        /\ ~before.handler.is_initialized =>
              /\ ~handler.is_initialized
              /\ Binding(handler) = Binding(NewHandler(1))
              /\ \A f \in LoaderFiles : process_file(handler, db, f, dat[f], NoFault).res = "Err"

\* The handler h bound to file f and initialized, all else as it was.
BoundTo(h, f) ==
    [h EXCEPT !.reference_file = f,
              !.reference_table_name = to_snake_case(f),
              !.reference_field = get_primary_key_field(Schema(f)),
              !.is_initialized = TRUE]

\* C29, amended: an init call that returns an error because the reference
\* file has no key field leaves the handler as it was; an init call that
\* returns any other error leaves it as it was or, when the error came
\* from loading the reference file, initialized and bound to that file,
\* with its processed_files and errors as before: process_file on it does
\* not fail as not initialized.  A call that began a transaction has bound
\* the handler.
C29_FailedInitMayBind ==
    (last.op = "init" /\ last.res = "Err") =>
        /\ handler \in {before.handler, BoundTo(before.handler, last.file)}
        /\ get_primary_key_field(Schema(last.file)) = None => handler = before.handler
        /\ last.begun >= 1 => handler = BoundTo(before.handler, last.file)
        /\ handler.processed_files = before.handler.processed_files
        /\ handler.errors = before.handler.errors

\* init on a fresh handler committed a batch of the reference file and
\* returned the error of the next: the handler is initialized and bound,
\* and the reference file is not in processed_files.
C29_Witness ==
    /\ last.op = "init"
    /\ last.res = "Err"
    /\ last.committed >= 1
    /\ ~before.handler.is_initialized
    /\ handler.is_initialized
    /\ handler.reference_file = last.file
    /\ last.file \notin handler.processed_files

(***************************************************************************)
(* Properties of a failing task.                                           *)
(***************************************************************************)
\* The task of file f has ended with an error.
HasFailed(f) == workers[f].pc = "failed"

\* The session's errors, and the aggregator's, that name file f.
ErrorsOfFile(f) ==
    {i \in 1..Len(handler.errors) : handler.errors[i].file_id = f}
        \cup {i \in 1..Len(aggregator.errors) : aggregator.errors[i].file_id = f}

\* Every file handed to the pool has one task, the reference file and the
\* files left out have none, and every task that opened a connection has
\* one of its own.
OneTaskPerFile ==
    /\ \A f \in FILES : workers[f].pc # "none" => f \in files_to_process
    /\ pc \in {"parallel", "done"} =>
          \A f \in files_to_process : workers[f].pc # "none"
    /\ ReferenceFile \notin files_to_process
    /\ \A f \in FILES, g \in FILES :
          (HasHandler(f) /\ HasHandler(g) /\ workers[f].h.database = workers[g].h.database)
              => f = g

\* The task of file f has not ended and waits for nothing but the mutex of
\* the aggregator, which a task that is adding its errors holds.
WaitsForAggregator(f) ==
    /\ workers[f].pc = "report"
    /\ \E g \in FILES \ {f} : workers[g].pc = "extend"

\* C30: each file other than the reference file has exactly one task; a
\* task that failed has added no error of its file; once a task has failed,
\* every task that has not ended can take its next step (or waits for the
\* aggregator's mutex, held by a task that can), and when all have ended,
\* with a result or with an error, the coordinator can merge and return;
\* and when the run has ended with a failed task, the table and the
\* reported errors of every task that did not fail are those of that task
\* running alone.
C30_FailureConfined ==
    /\ OneTaskPerFile
    /\ \A f \in FILES : HasFailed(f) => ErrorsOfFile(f) = {}
    /\ (pc = "parallel" /\ \E f \in FILES : HasFailed(f)) =>
          /\ \A g \in files_to_process :
                workers[g].pc \notin {"done", "failed"} =>
                    (ENABLED WorkerStep(g)) \/ WaitsForAggregator(g)
          /\ (\A g \in files_to_process : workers[g].pc \in {"done", "failed"}) =>
                ENABLED RunMerge
    /\ (pc = "done" /\ \E f \in FILES : HasFailed(f)) =>
          \A g \in files_to_process :
              workers[g].pc = "done" => SameOutcome(g, AloneResult(g))

\* The run has ended: one task failed after it had committed a batch, and
\* another one loaded its file and reported an error of it.
C30_Witness ==
    /\ pc = "done"
    /\ \E f \in files_to_process, g \in files_to_process :
          /\ HasFailed(f)
          /\ workers[f].committed >= 1
          /\ workers[g].pc = "done"
          /\ workers[g].local_errors # <<>>
          /\ \E i \in 1..Len(handler.errors) : handler.errors[i].file_id = g

====
